---- MODULE Spec2Model ----
(***************************************************************************)
(* python-bitpin: the blocking client (clients/client.py), the             *)
(* non-blocking client (clients/async_client.py) and their shared core     *)
(* (clients/core.py), as one state machine.                                *)
(*                                                                         *)
(* Python values are modelled as follows.                                  *)
(*   - dict            a function over its keys (EmptyDict is {} and also  *)
(*                     stands for an absent requests_params, both falsy)   *)
(*   - Optional[str]   a string, None being the sentinel below             *)
(*   - a str that the code indexes (the keys and values of `data`)         *)
(*                     a sequence of one-character strings                 *)
(*   - an HTTP response  [status, body], body = [text, valid, json,        *)
(*                     json_type]: the raw text, whether the JSON decoder  *)
(*                     accepts it, what it decodes to, and whether the     *)
(*                     Content-Type header says application/json           *)
(* A call of a client method is split where it waits for the network:      *)
(* everything up to the transport call is one step, everything after the   *)
(* response has arrived is another.                                        *)
(***************************************************************************)
EXTENDS Integers, Sequences, FiniteSets, TLC

VARIABLES
    kind,                       \* "sync" (Client) or "async" (AsyncClient)
    api_key, api_secret,        \* CoreClient.api_key / api_secret
    access_token, refresh_token,\* CoreClient.access_token / refresh_token
    background_relogin,         \* CoreClient._background_relogin
    background_refresh_token,   \* CoreClient._background_refresh_token
    requests_params,            \* CoreClient._requests_params
    ctor,                       \* progress of construction (_handle_login)
    pc,                         \* per thread/task: where it is
    req,                        \* per thread/task: the request it has in flight
    called,                     \* the caller's current/last call: method, arguments
    result,                     \* the caller's last outcome (return or raise)
    nsent,                      \* requests the caller's current/last call issued
    log,                        \* per maintainer: its attempts and sleeps
    session                     \* CoreClient.session: "open" or "closed"

vars == <<kind, api_key, api_secret, access_token, refresh_token,
          background_relogin, background_refresh_token, requests_params,
          ctor, pc, req, called, result, nsent, log, session>>

-----------------------------------------------------------------------------
(* Bounds of the model *)

\* longest order list handed to create_order_bulk (one more than max_orders)
MaxOrderLen == 11
\* entries a maintainer's log keeps (later events are not recorded)
MaxLog == 4

-----------------------------------------------------------------------------
(* Python values *)

None == "<None>"
EmptyDict == <<>>

Truthy(v) == v # None /\ v # ""
\* `a or b`
Or(a, b) == IF Truthy(a) THEN a ELSE b
\* str(v) / f"{v}" of an Optional[str]
Str(v) == IF v = None THEN "None" ELSE v

\* dict.update
Update(d, e) ==
    [k \in (DOMAIN d) \cup (DOMAIN e) |-> IF k \in DOMAIN e THEN e[k] ELSE d[k]]
\* del d[key]
Remove(d, key) == [k \in (DOMAIN d) \ {key} |-> d[k]]
\* dict.get(key, default)
Get(d, key, default) == IF key \in DOMAIN d THEN d[key] ELSE default

-----------------------------------------------------------------------------
(* core.py: class constants *)

REQUEST_TIMEOUT == 10
PUBLIC_API_VERSION_1 == "v1"

\* paths, split at "/": a trailing "/" leaves a last empty segment
LOGIN_URL == <<"usr", "authenticate", "">>
REFRESH_TOKEN_URL == <<"usr", "refresh_token", "">>
CURRENCIES_LIST_URL == <<"mkt", "currencies", "">>
MARKETS_LIST_URL == <<"mkt", "markets", "">>
TICKERS_LIST_URL == <<"mkt", "tickers", "">>
WALLETS_URL == <<"wlt", "wallets", "">>
ORDERBOOK_URL(symbol) == <<"mth", "orderbook", symbol, "">>
RECENT_TRADES_URL(symbol) == <<"mth", "matches", symbol, "">>
ORDERS_URL == <<"odr", "orders", "">>
BULK_ORDER_URL == <<"odr", "orders", "bulk", "">>

\* API_URL + "/" + version + "/" + path, as the segments of its path part
\* ("/api/<version>/<path>" split at "/")
_create_api_uri(path, version) == <<"", "api", version>> \o path

-----------------------------------------------------------------------------
(* core.py: CoreClient._get_request_kwargs *)

\* the key "requests_params" of a data dict
RequestsParamsKey ==
    <<"r","e","q","u","e","s","t","s","_","p","a","r","a","m","s">>

NoData == [type |-> "none", items |-> <<>>]

\* position of `key` among the items of a data dict, 0 when absent
ItemIndex(items, key) ==
    IF \E i \in 1..Len(items) : items[i][1] = key
    THEN CHOOSE i \in 1..Len(items) : items[i][1] = key
    ELSE 0

DropItem(items, i) ==
    [j \in 1..(Len(items) - 1) |-> IF j < i THEN items[j] ELSE items[j + 1]]

\* f"Bearer {self.access_token}"
Bearer(token) == "Bearer " \o Str(token)

\* "&".join(f"{data[0]}={data[1]}" for data in kwargs["data"]): iterating a
\* dict yields its keys, so data[0] and data[1] are the key's first two
\* characters; iterating a list of pairs yields the pairs.
QueryPiece(type, item) ==
    IF type = "dict"
    THEN [l |-> SubSeq(item[1], 1, 1), r |-> SubSeq(item[1], 2, 2)]
    ELSE [l |-> item[1], r |-> item[2]]

QueryString(data) == [i \in 1..Len(data.items) |-> QueryPiece(data.type, data.items[i])]

\* data[1] raises IndexError on a key shorter than two characters
QueryRaises(data) ==
    data.type = "dict" /\ \E i \in 1..Len(data.items) : Len(data.items[i][1]) < 2

\* (variant: an Authorization header already there is kept)
SignedHeadersKeepsGiven(kwargs, token) ==
    Update([Authorization |-> Bearer(token)], Get(kwargs, "headers", EmptyDict))

\* headers = kwargs.get("headers", {}); headers.update({"Authorization": ...})
SignedHeaders(kwargs, token) ==
    Update(Get(kwargs, "headers", EmptyDict), [Authorization |-> Bearer(token)])

\* The finalized options, the default options as the call leaves them (the
\* headers dict taken from the defaults is updated in place), and the
\* exception raised, if any.
_get_request_kwargs(method, signed, kwargs, defaults, token) ==
    LET k1 == Update(kwargs, [timeout |-> REQUEST_TIMEOUT])
        k2 == IF defaults # EmptyDict THEN Update(k1, defaults) ELSE k1
        data0 == Get(k2, "data", NoData)
        isDict == data0.items # <<>> /\ data0.type = "dict"
        rp == IF isDict THEN ItemIndex(data0.items, RequestsParamsKey) ELSE 0
        data == IF rp # 0
                THEN [type |-> "dict", items |-> DropItem(data0.items, rp)]
                ELSE data0
        k3 == IF rp # 0
              THEN Update(Update(k2, data0.items[rp][2]), [data |-> data])
              ELSE k2
        \* the headers object is the defaults' own unless data's
        \* requests_params brought another
        shared == /\ defaults # EmptyDict
                  /\ "headers" \in DOMAIN defaults
                  /\ ~(rp # 0 /\ "headers" \in DOMAIN data0.items[rp][2])
        headers == SignedHeaders(k3, token)
        k4 == IF signed THEN Update(k3, [headers |-> headers]) ELSE k3
        toQuery == data.items # <<>> /\ method = "get"
        k5 == IF toQuery
              THEN Remove(Update(k4, [params |-> QueryString(data)]), "data")
              ELSE k4
    IN  IF toQuery /\ QueryRaises(data)
        THEN [raised |-> "IndexError", kwargs |-> k4,
              defaults |-> IF signed /\ shared
                           THEN Update(defaults, [headers |-> headers])
                           ELSE defaults]
        ELSE [raised |-> "", kwargs |-> k5,
              defaults |-> IF signed /\ shared
                           THEN Update(defaults, [headers |-> headers])
                           ELSE defaults]

-----------------------------------------------------------------------------
(* HTTP responses *)

\* str(status).startswith("2"): the first decimal digit is 2
RECURSIVE FirstDigit(_)
FirstDigit(n) == IF n < 10 THEN n ELSE FirstDigit(n \div 10)
StartsWith2(status) == FirstDigit(status) = 2

Statuses == {200, 204, 500}

EmptyBody ==
    [text |-> "", valid |-> FALSE, json |-> EmptyDict, json_type |-> TRUE]
NotJsonBody ==
    [text |-> "not json", valid |-> FALSE, json |-> EmptyDict, json_type |-> TRUE]
\* the same text sent as text/plain
PlainBody ==
    [text |-> "not json", valid |-> FALSE, json |-> EmptyDict, json_type |-> FALSE]
\* {"refresh": r, "access": a}
TokenBody(r, a) ==
    [text |-> "{refresh:" \o r \o ",access:" \o a \o "}", valid |-> TRUE,
     json |-> [refresh |-> r, access |-> a], json_type |-> TRUE]
\* {"access": a}
AccessBody(a) ==
    [text |-> "{access:" \o a \o "}", valid |-> TRUE, json |-> [access |-> a],
     json_type |-> TRUE]
\* {"refresh": r}
RefreshOnlyBody(r) ==
    [text |-> "{refresh:" \o r \o "}", valid |-> TRUE, json |-> [refresh |-> r],
     json_type |-> TRUE]
\* any other JSON object, e.g. a listing or an error detail
DetailBody ==
    [text |-> "{detail:x}", valid |-> TRUE, json |-> [detail |-> "x"],
     json_type |-> TRUE]

\* tokens the exchange hands out
ServerAccess == {"A1"}
ServerRefresh == {"R1"}

Bodies ==
    {EmptyBody, NotJsonBody, PlainBody, DetailBody}
        \cup {TokenBody(r, a) : r \in ServerRefresh, a \in ServerAccess}
        \cup {AccessBody(a) : a \in ServerAccess}
        \cup {RefreshOnlyBody(r) : r \in ServerRefresh}

Responses == [status : Statuses, body : Bodies]

-----------------------------------------------------------------------------
(* Outcomes of a call *)

NoValue == EmptyDict
NoResult == [kind |-> "none", exc |-> "", status |-> 0, text |-> "", value |-> NoValue]
Return(v) == [kind |-> "return", exc |-> "", status |-> 0, text |-> "", value |-> v]
Raise(e, status, text) ==
    [kind |-> "raise", exc |-> e, status |-> status, text |-> text, value |-> NoValue]

\* (variant: the response text is left out)
APIExceptionWithoutText(status, text) == Raise("APIException", status, "")

\* APIException(response, status_code, text)
APIException(status, text) == Raise("APIException", status, text)
\* RequestException(f"Invalid Response: {text}")
RequestException(text) == Raise("RequestException", 0, "Invalid Response: " \o text)

\* the value None when a call returns it
JsonNull == [null |-> TRUE]

\* seq[-2]
LastButOne(seq) == seq[Len(seq) - 1]

\* the payload synthesized for a DELETE
Cancelled(id) == [status |-> "success", id |-> id]

-----------------------------------------------------------------------------
(* client.py: Client._handle_response *)

\* `response.json()` of a requests.Response: the text goes to the JSON
\* decoder whatever the Content-Type; its JSONDecodeError is a ValueError.
RequestsJson(body) ==
    IF body.valid
    THEN Return(body.json)
    ELSE Raise("ValueError", 0, "")

\* (variant: a DELETE answered non-2xx raises like any other request)
SyncHandleResponseRaises(method, uri, response) ==
    IF ~StartsWith2(response.status)
    THEN APIException(response.status, response.body.text)
    ELSE LET decoded == RequestsJson(response.body)
         IN  IF decoded.kind = "raise" /\ decoded.exc = "ValueError"
             THEN RequestException(response.body.text)
             ELSE decoded

SyncHandleResponse(method, uri, response) ==
    IF ~StartsWith2(response.status)
    THEN IF method = "delete"
         THEN Return(Cancelled(LastButOne(uri)))
         ELSE APIException(response.status, response.body.text)
    ELSE LET decoded == RequestsJson(response.body)
         IN  IF decoded.kind = "raise" /\ decoded.exc = "ValueError"
             THEN RequestException(response.body.text)
             ELSE decoded

(* async_client.py: AsyncClient._handle_response *)

\* `await response.json()` of an aiohttp.ClientResponse: a Content-Type other
\* than application/json raises ContentTypeError (a ClientResponseError, not
\* a ValueError), a body that is empty once stripped gives None, and any
\* other text goes to json.loads.
AiohttpJson(body) ==
    IF ~body.json_type
    THEN Raise("ContentTypeError", 0, "")
    ELSE IF body.text = ""
         THEN Return(JsonNull)
         ELSE IF body.valid
              THEN Return(body.json)
              ELSE Raise("ValueError", 0, "")

AsyncHandleResponse(method, uri, response) ==
    IF ~StartsWith2(response.status)
    THEN APIException(response.status, response.body.text)
    ELSE IF method = "delete"
         THEN Return(Cancelled(LastButOne(uri)))
         ELSE LET decoded == AiohttpJson(response.body)
              IN  IF decoded.kind = "raise" /\ decoded.exc = "ValueError"
                  THEN RequestException(response.body.text)
                  ELSE decoded

_handle_response(k, method, uri, response) ==
    IF k = "sync"
    THEN SyncHandleResponse(method, uri, response)
    ELSE AsyncHandleResponse(method, uri, response)

-----------------------------------------------------------------------------
(* Endpoint methods: what each hands to _get/_post/_delete.                *)
(* A prepared call is [raised, method, path, signed, kwargs]; `raised` is  *)
(* the exception the method raised before any request, "" if none.         *)

Prepared(method, path, signed, kwargs) ==
    [raised |-> "", method |-> method, path |-> path, signed |-> signed,
     kwargs |-> kwargs]
Rejected(exc) ==
    [raised |-> exc, method |-> "", path |-> <<>>, signed |-> FALSE,
     kwargs |-> EmptyDict]

\* str(v) of a value that is not a string
StrOf(v) == [str |-> v]

\* the arguments of a call; a method reads the ones it has
Args(kwargs, order_id, orders, symbol, token) ==
    [kwargs |-> kwargs, order_id |-> order_id, orders |-> orders,
     symbol |-> symbol, refresh_token |-> token]

login(a) ==
    Prepared("post", LOGIN_URL, FALSE,
             Update(a.kwargs, [json |-> [api_key |-> api_key, secret_key |-> api_secret]]))

refresh_access_token(a) ==
    Prepared("post", REFRESH_TOKEN_URL, FALSE,
             Update(a.kwargs, [json |-> [refresh |-> Or(a.refresh_token, refresh_token)]]))

get_currencies_info(a) == Prepared("get", CURRENCIES_LIST_URL, FALSE, EmptyDict)
get_markets_info(a) == Prepared("get", MARKETS_LIST_URL, FALSE, EmptyDict)
get_tickers_info(a) == Prepared("get", TICKERS_LIST_URL, FALSE, EmptyDict)

\* called with assets, service, offset and limit left None
get_wallets(a) ==
    Prepared("get", WALLETS_URL, TRUE, Update(a.kwargs, [params |-> EmptyDict]))

get_orderbook(a) == Prepared("get", ORDERBOOK_URL(a.symbol), FALSE, EmptyDict)
get_recent_trades(a) == Prepared("get", RECENT_TRADES_URL(a.symbol), FALSE, EmptyDict)

\* called with every filter left None
get_user_orders(a) ==
    Prepared("get", ORDERS_URL, TRUE,
             Update(a.kwargs, [params |-> Get(a.kwargs, "params", EmptyDict)]))

\* called with symbol, type, side and base_amount; the None-valued rest is
\* stripped
create_order(a) ==
    Prepared("post", ORDERS_URL, TRUE,
             Update(a.kwargs, [json |-> [symbol |-> a.symbol, type |-> "limit",
                                         side |-> "buy", base_amount |-> 1]]))

\* ORDERS_URL + f"{order_id}/"
cancel_order(a) ==
    Prepared("delete", SubSeq(ORDERS_URL, 1, 2) \o <<a.order_id, "">>, TRUE, a.kwargs)

\* (variant: the orders' markets are not compared)
create_order_bulk_any_market(a) ==
    IF Len(a.orders) > 10
    THEN Rejected("ValueError")
    ELSE Prepared("post", BULK_ORDER_URL, TRUE,
                  Update(a.kwargs, [json |-> [orders |-> StrOf(a.orders)]]))

\* (variant: the length test is `>=`, so a list of ten is refused)
create_order_bulk_below_limit(a) ==
    IF Len(a.orders) >= 10
    THEN Rejected("ValueError")
    ELSE LET market == IF a.orders # <<>> THEN a.orders[1].symbol ELSE None
             body == [orders |-> StrOf(a.orders), max_orders |-> StrOf(10)]
         IN  IF \E i \in 1..Len(a.orders) : a.orders[i].symbol # market
             THEN Rejected("ValueError")
             ELSE Prepared("post", BULK_ORDER_URL, TRUE,
                           Update(a.kwargs,
                                  [json |-> IF market = None
                                            THEN body
                                            ELSE Update(body, [market |-> market])]))

max_orders == 10

\* the json body is built from locals(): orders, max_orders and market
create_order_bulk(a) ==
    IF Len(a.orders) > max_orders
    THEN Rejected("ValueError")
    ELSE LET market == IF a.orders # <<>> THEN a.orders[1].symbol ELSE None
             body == [orders |-> StrOf(a.orders), max_orders |-> StrOf(max_orders)]
         IN  IF \E i \in 1..Len(a.orders) : a.orders[i].symbol # market
             THEN Rejected("ValueError")
             ELSE Prepared("post", BULK_ORDER_URL, TRUE,
                           Update(a.kwargs,
                                  [json |-> IF market = None
                                            THEN body
                                            ELSE Update(body, [market |-> market])]))

\* called with ids and identifiers left None
cancel_order_bulk(a) ==
    Prepared("delete", BULK_ORDER_URL, TRUE, Update(a.kwargs, [json |-> EmptyDict]))

\* (variant: the trades are requested without signed=True)
get_user_trades_unsigned(a) ==
    Prepared("get", ORDERS_URL, FALSE,
             Update(a.kwargs, [params |-> Get(a.kwargs, "params", EmptyDict)]))

\* called with every filter left None
get_user_trades(a) ==
    Prepared("get", ORDERS_URL, TRUE,
             Update(a.kwargs, [params |-> Get(a.kwargs, "params", EmptyDict)]))

Endpoints ==
    {"login", "refresh_access_token", "get_currencies_info", "get_markets_info",
     "get_tickers_info", "get_wallets", "get_orderbook", "get_recent_trades",
     "get_user_orders", "create_order", "cancel_order", "create_order_bulk",
     "cancel_order_bulk", "get_user_trades"}

Prepare(ep, a) ==
    CASE ep = "login" -> login(a)
      [] ep = "refresh_access_token" -> refresh_access_token(a)
      [] ep = "get_currencies_info" -> get_currencies_info(a)
      [] ep = "get_markets_info" -> get_markets_info(a)
      [] ep = "get_tickers_info" -> get_tickers_info(a)
      [] ep = "get_wallets" -> get_wallets(a)
      [] ep = "get_orderbook" -> get_orderbook(a)
      [] ep = "get_recent_trades" -> get_recent_trades(a)
      [] ep = "get_user_orders" -> get_user_orders(a)
      [] ep = "create_order" -> create_order(a)
      [] ep = "cancel_order" -> cancel_order(a)
      [] ep = "create_order_bulk" -> create_order_bulk(a)
      [] ep = "cancel_order_bulk" -> cancel_order_bulk(a)
      [] ep = "get_user_trades" -> get_user_trades(a)

(* What a method does with the normalized response `out`: the outcome it   *)
(* gives its caller and the tokens it leaves.                              *)

Finished(out, access, refresh) == [result |-> out, access |-> access, refresh |-> refresh]

\* (variant: the payload is returned but the access token is not stored)
LoginFinishKeepsAccess(out) ==
    IF out.kind = "return" /\ DOMAIN out.value = {"refresh", "access"}
    THEN Finished(out, access_token, out.value.refresh)
    ELSE Finished(Raise("KeyError", 0, ""), access_token, refresh_token)

\* (variant: the two tokens are stored the wrong way round)
LoginFinishSwapped(out) ==
    IF out.kind = "return" /\ DOMAIN out.value = {"refresh", "access"}
    THEN Finished(out, out.value.refresh, out.value.access)
    ELSE Finished(Raise("KeyError", 0, ""), access_token, refresh_token)

\* login, lines after the POST: refresh_token, then access_token
LoginFinish(out) ==
    IF out.kind # "return"
    THEN Finished(out, access_token, refresh_token)
    ELSE IF out.value = JsonNull
    THEN Finished(Raise("TypeError", 0, ""), access_token, refresh_token)
    ELSE IF "refresh" \notin DOMAIN out.value
         THEN Finished(Raise("KeyError", 0, "refresh"), access_token, refresh_token)
         ELSE IF "access" \notin DOMAIN out.value
              THEN Finished(Raise("KeyError", 0, "access"), access_token, out.value.refresh)
              ELSE Finished(out, out.value.access, out.value.refresh)

\* (variant: a refresh token that comes with the payload is stored too)
RefreshFinishStoresRefresh(out) ==
    IF out.kind # "return"
    THEN Finished(out, access_token, refresh_token)
    ELSE IF "access" \notin DOMAIN out.value
         THEN Finished(Raise("KeyError", 0, "access"), access_token, refresh_token)
         ELSE Finished(out, out.value.access, Get(out.value, "refresh", refresh_token))

\* (variant: a refresh that fails forgets the access token)
RefreshFinishForgetsAccess(out) ==
    IF out.kind # "return"
    THEN Finished(out, None, refresh_token)
    ELSE IF "access" \notin DOMAIN out.value
         THEN Finished(Raise("KeyError", 0, "access"), None, refresh_token)
         ELSE Finished(out, out.value.access, refresh_token)

\* refresh_access_token, lines after the POST
RefreshFinish(out) ==
    IF out.kind # "return"
    THEN Finished(out, access_token, refresh_token)
    ELSE IF out.value = JsonNull
    THEN Finished(Raise("TypeError", 0, ""), access_token, refresh_token)
    ELSE IF "access" \notin DOMAIN out.value
         THEN Finished(Raise("KeyError", 0, "access"), access_token, refresh_token)
         ELSE Finished(out, out.value.access, refresh_token)

\* cancel_order: try/except APIException/else around the DELETE
CancelFinish(out, order_id) ==
    IF out.kind # "return"
    THEN Finished(out, access_token, refresh_token)
    ELSE Finished(Return(Cancelled(order_id)), access_token, refresh_token)

Finish(r, out) ==
    CASE r.endpoint = "login" -> LoginFinish(out)
      [] r.endpoint = "refresh_access_token" -> RefreshFinish(out)
      [] r.endpoint = "cancel_order" -> CancelFinish(out, r.order_id)
      [] OTHER -> Finished(out, access_token, refresh_token)

-----------------------------------------------------------------------------
(* The client as a state machine *)

Maintainers == {"relogin", "refresh"}
Procs == {"caller"} \cup Maintainers

\* defaults of the constructor (seconds)
background_relogin_interval == 518400
background_refresh_token_interval == 780

Interval(p) ==
    IF p = "relogin"
    THEN background_relogin_interval
    ELSE background_refresh_token_interval

NoReq ==
    [endpoint |-> "", method |-> "", uri |-> <<>>, signed |-> FALSE,
     given |-> EmptyDict, kwargs |-> EmptyDict, token |-> None, order_id |-> None]

\* Client._request up to the transport call: the request as it is sent.
\* `given` are the caller's per-call options and `token` is access_token as
\* it was when the options were built.
Request(ep, a, c, built) ==
    [endpoint |-> ep, method |-> c.method,
     uri |-> _create_api_uri(c.path, PUBLIC_API_VERSION_1),
     signed |-> c.signed, given |-> a.kwargs, kwargs |-> built.kwargs,
     token |-> access_token,
     order_id |-> a.order_id]

NoArgs == Args(EmptyDict, None, <<>>, None, None)

Called(ep, a) == [endpoint |-> ep, args |-> a]

\* default request options a client is constructed with
DefaultOptions ==
    {EmptyDict,
     [headers |-> [Authorization |-> "Basic default"], timeout |-> 30]}

\* per-call options a caller passes
CallOptions ==
    {EmptyDict,
     [headers |-> [Authorization |-> "Basic caller"], timeout |-> 5]}

\* `data` payloads a caller passes to a GET endpoint: a dict, a dict with
\* a one-character key, a dict that also carries requests_params, and a list
\* of pairs
DataDict(items) == [data |-> [type |-> "dict", items |-> items]]
DataList(items) == [data |-> [type |-> "list", items |-> items]]
DataOptions ==
    {DataDict(<< <<(<<"s","y","m","b","o","l">>), <<"B","T","C">>>> >>),
     DataDict(<< <<(<<"a">>), <<"1">>>> >>),
     DataDict(<< <<(<<"s","y","m","b","o","l">>), <<"B","T","C">>>>,
                 <<RequestsParamsKey, [timeout |-> 3]>> >>),
     DataList(<< <<(<<"s","y","m","b","o","l">>), <<"B","T","C">>>> >>)}

\* k orders of one market followed by m orders of another
Orders(k, m) ==
    [i \in 1..(k + m) |-> IF i <= k THEN [symbol |-> "BTC_IRT"] ELSE [symbol |-> "ETH_IRT"]]
\* short lists and lists around the longest, of one market or of two
OrderLists ==
    {Orders(k, m) : k \in (0..2) \cup ((MaxOrderLen - 2)..MaxOrderLen), m \in 0..1}
        \cup {Orders(1, MaxOrderLen - 1)}

OrderIds == {"42", "7"}

\* the arguments the caller may pass to `ep`
CallArgs(ep) ==
    CASE ep \in {"get_currencies_info", "get_markets_info", "get_tickers_info"} ->
            {NoArgs}
      [] ep \in {"get_orderbook", "get_recent_trades"} ->
            {Args(EmptyDict, None, <<>>, "BTC_IRT", None)}
      [] ep = "create_order" ->
            {Args(EmptyDict, None, <<>>, "BTC_IRT", None)}
      [] ep = "cancel_order" ->
            {Args(o, id, <<>>, None, None) : o \in CallOptions, id \in OrderIds}
      [] ep = "create_order_bulk" ->
            {Args(EmptyDict, None, os, None, None) : os \in OrderLists}
      [] ep = "refresh_access_token" ->
            {Args(EmptyDict, None, <<>>, None, t) : t \in {None, "", "R9"}}
      [] ep \in {"login", "get_wallets"} ->
            {Args(o, None, <<>>, None, None) : o \in CallOptions}
      [] ep = "get_user_orders" ->
            {Args(o, None, <<>>, None, None) : o \in {EmptyDict} \cup DataOptions}
      [] OTHER ->
            {NoArgs}

\* CoreClient.__init__: each field is the argument or, failing that, the
\* environment variable. The two tokens are given together or not at all. `options` are the requests_params and `flags` the
\* background_relogin / background_refresh_token values clients are
\* constructed with.
Constructed(options, flags) ==
    /\ kind \in {"sync", "async"}
    /\ api_key \in {Or(a, e) : a \in {None, "", "key"}, e \in {None, "key"}}
    /\ api_secret \in {Or(a, e) : a \in {None, "", "secret"}, e \in {None, "secret"}}
    /\ \E given \in BOOLEAN :
          /\ access_token \in {Or(a, None) : a \in IF given THEN {"T0"} ELSE {None, ""}}
          /\ refresh_token \in {Or(a, None) : a \in IF given THEN {"R0"} ELSE {None, ""}}
    /\ background_relogin \in flags
    /\ background_refresh_token \in flags
    /\ requests_params \in options
    /\ ctor = "new"
    /\ pc = [p \in Procs |-> IF p = "caller" THEN "idle" ELSE "off"]
    /\ req = [p \in Procs |-> NoReq]
    /\ called = Called("", NoArgs)
    /\ result = NoResult
    /\ nsent = 0
    /\ log = [p \in Maintainers |-> <<>>]
    /\ session = "open"

\* clients without background maintainers
Init == Constructed(DefaultOptions, {FALSE})

config == <<kind, api_key, api_secret, background_relogin, background_refresh_token>>

\* Thread(...).start() / loop.create_task(...) of _handle_login
Started(flag) == IF flag THEN "ready" ELSE "off"

\* _handle_login up to its login's transport call (Client.__init__,
\* AsyncClient.create); all of it when there are no credentials
HandleLogin ==
    /\ ctor = "new"
    /\ IF Truthy(api_key) /\ Truthy(api_secret)
       THEN LET c == login(NoArgs)
                b == _get_request_kwargs(c.method, c.signed, c.kwargs,
                                         requests_params, access_token)
            IN  /\ ctor' = "login"
                /\ pc' = [pc EXCEPT !["caller"] = "inflight"]
                /\ req' = [req EXCEPT !["caller"] = Request("login", NoArgs, c, b)]
                /\ requests_params' = b.defaults
                /\ called' = Called("login", NoArgs)
                /\ nsent' = 1
       ELSE /\ ctor' = "done"
            /\ pc' = [pc EXCEPT !["relogin"] = Started(background_relogin),
                                !["refresh"] = Started(background_refresh_token)]
            /\ UNCHANGED <<req, requests_params, called, nsent>>
    /\ UNCHANGED <<config, access_token, refresh_token, result, log, session>>

\* (variant: the maintainers are started whatever the login did)
HandleLoginRespondStartsAnyway(response) ==
    /\ ctor = "login"
    /\ pc["caller"] = "inflight"
    /\ LET r == req["caller"]
           f == Finish(r, _handle_response(kind, r.method, r.uri, response))
       IN  /\ access_token' = f.access
           /\ refresh_token' = f.refresh
           /\ result' = f.result
           /\ ctor' = IF f.result.kind = "return" THEN "done" ELSE "failed"
           /\ pc' = [pc EXCEPT !["caller"] = "idle",
                               !["relogin"] = Started(background_relogin),
                               !["refresh"] = Started(background_refresh_token)]
    /\ req' = [req EXCEPT !["caller"] = NoReq]
    /\ UNCHANGED <<config, requests_params, called, nsent, log, session>>

\* the rest of _handle_login once its login's response is there: a raise
\* leaves the constructor, otherwise the maintainers are started
HandleLoginRespond(response) ==
    /\ ctor = "login"
    /\ pc["caller"] = "inflight"
    /\ LET r == req["caller"]
           f == Finish(r, _handle_response(kind, r.method, r.uri, response))
       IN  /\ access_token' = f.access
           /\ refresh_token' = f.refresh
           /\ result' = f.result
           /\ IF f.result.kind = "return"
              THEN /\ ctor' = "done"
                   /\ pc' = [pc EXCEPT !["caller"] = "idle",
                                       !["relogin"] = Started(background_relogin),
                                       !["refresh"] = Started(background_refresh_token)]
              ELSE /\ ctor' = "failed"
                   /\ pc' = [pc EXCEPT !["caller"] = "idle"]
    /\ req' = [req EXCEPT !["caller"] = NoReq]
    /\ UNCHANGED <<config, requests_params, called, nsent, log, session>>

\* getattr(self.session, method)(uri, **kwargs) on a closed session: an
\* aiohttp.ClientSession raises RuntimeError("Session is closed") before any
\* I/O; a requests.Session that was closed opens new connections and sends.
SessionRaises == kind = "async" /\ session = "closed"

\* an endpoint method up to its transport call
CallBegin(ep, a) ==
    /\ ctor = "done"
    /\ pc["caller"] = "idle"
    /\ called' = Called(ep, a)
    /\ LET c == Prepare(ep, a)
           b == _get_request_kwargs(c.method, c.signed, c.kwargs,
                                    requests_params, access_token)
       IN  IF c.raised # ""
           THEN /\ result' = Raise(c.raised, 0, "")
                /\ nsent' = 0
                /\ UNCHANGED <<pc, req, requests_params>>
           ELSE IF b.raised # ""
           THEN /\ result' = Raise(b.raised, 0, "")
                /\ nsent' = 0
                /\ requests_params' = b.defaults
                /\ UNCHANGED <<pc, req>>
           ELSE IF SessionRaises
           THEN /\ result' = Raise("RuntimeError", 0, "Session is closed")
                /\ nsent' = 0
                /\ requests_params' = b.defaults
                /\ UNCHANGED <<pc, req>>
           ELSE /\ result' = NoResult
                /\ nsent' = 1
                /\ requests_params' = b.defaults
                /\ pc' = [pc EXCEPT !["caller"] = "inflight"]
                /\ req' = [req EXCEPT !["caller"] = Request(ep, a, c, b)]
    /\ UNCHANGED <<config, ctor, access_token, refresh_token, log, session>>

\* the endpoint method from the response on
CallRespond(response) ==
    /\ ctor = "done"
    /\ pc["caller"] = "inflight"
    /\ LET r == req["caller"]
           f == Finish(r, _handle_response(kind, r.method, r.uri, response))
       IN  /\ access_token' = f.access
           /\ refresh_token' = f.refresh
           /\ result' = f.result
    /\ pc' = [pc EXCEPT !["caller"] = "idle"]
    /\ req' = [req EXCEPT !["caller"] = NoReq]
    /\ UNCHANGED <<config, ctor, requests_params, called, nsent, log, session>>

\* what a maintainer's log keeps
Attempt(ok) == [ev |-> "attempt", ok |-> ok, secs |-> 0]
Sleep(secs) == [ev |-> "sleep", ok |-> TRUE, secs |-> secs]
Logged(l, entries) ==
    LET all == l \o entries
    IN  IF Len(all) <= MaxLog THEN all ELSE SubSeq(all, 1, MaxLog)

MaintainerEndpoint(p) == IF p = "relogin" THEN "login" ELSE "refresh_access_token"

\* (variant: the sleep sits in a finally clause)
MaintainerAfterAlwaysSleeps(ok) == "sleeping"

\* (variant: the exception is not caught and ends the thread or task)
MaintainerAfterEscapes(ok) == IF ok THEN "sleeping" ELSE "off"

\* the loop body from the response on: a return goes on to sleep, any
\* Exception goes back to the head of the loop
MaintainerAfter(ok) == IF ok THEN "sleeping" ELSE "ready"

\* (variant: a lock shared with the caller's requests: an attempt waits
\* while a request of the caller is in flight)
MaintainerAttemptSerialized(p) ==
    /\ pc[p] = "ready"
    /\ pc["caller"] # "inflight"
    /\ LET ep == MaintainerEndpoint(p)
           c == Prepare(ep, NoArgs)
           b == _get_request_kwargs(c.method, c.signed, c.kwargs,
                                    requests_params, access_token)
       IN  /\ requests_params' = b.defaults
           /\ IF SessionRaises
              THEN /\ pc' = [pc EXCEPT ![p] = MaintainerAfter(FALSE)]
                   /\ log' = [log EXCEPT ![p] = Logged(@, <<Attempt(FALSE)>>)]
                   /\ UNCHANGED req
              ELSE /\ pc' = [pc EXCEPT ![p] = "inflight"]
                   /\ req' = [req EXCEPT ![p] = Request(ep, NoArgs, c, b)]
                   /\ UNCHANGED log
    /\ UNCHANGED <<config, ctor, access_token, refresh_token, called, result,
                   nsent, session>>

\* _background_relogin_task / _background_refresh_token_task: the head of
\* the loop up to the transport call of login() / refresh_access_token()
MaintainerAttempt(p) ==
    /\ pc[p] = "ready"
    /\ LET ep == MaintainerEndpoint(p)
           c == Prepare(ep, NoArgs)
           b == _get_request_kwargs(c.method, c.signed, c.kwargs,
                                    requests_params, access_token)
       IN  /\ requests_params' = b.defaults
           /\ IF SessionRaises
              THEN \* RuntimeError out of login()/refresh_access_token(),
                   \* caught by the loop: straight to the next iteration
                   /\ pc' = [pc EXCEPT ![p] = MaintainerAfter(FALSE)]
                   /\ log' = [log EXCEPT ![p] = Logged(@, <<Attempt(FALSE)>>)]
                   /\ UNCHANGED req
              ELSE /\ pc' = [pc EXCEPT ![p] = "inflight"]
                   /\ req' = [req EXCEPT ![p] = Request(ep, NoArgs, c, b)]
                   /\ UNCHANGED log
    /\ UNCHANGED <<config, ctor, access_token, refresh_token, called, result,
                   nsent, session>>

MaintainerRespond(p, response) ==
    /\ pc[p] = "inflight"
    /\ LET r == req[p]
           f == Finish(r, _handle_response(kind, r.method, r.uri, response))
           ok == f.result.kind = "return"
       IN  /\ access_token' = f.access
           /\ refresh_token' = f.refresh
           /\ pc' = [pc EXCEPT ![p] = MaintainerAfter(ok)]
           /\ log' = [log EXCEPT ![p] =
                        Logged(@, IF MaintainerAfter(ok) = "sleeping"
                                  THEN <<Attempt(ok), Sleep(Interval(p))>>
                                  ELSE <<Attempt(ok)>>)]
    /\ req' = [req EXCEPT ![p] = NoReq]
    /\ UNCHANGED <<config, ctor, requests_params, called, result, nsent, session>>

\* time.sleep / asyncio.sleep returns
MaintainerWake(p) ==
    /\ pc[p] = "sleeping"
    /\ pc' = [pc EXCEPT ![p] = "ready"]
    /\ UNCHANGED <<config, ctor, access_token, refresh_token, requests_params,
                   req, called, result, nsent, log, session>>

\* close_connection: self.session.close() / await self.session.close();
\* the threads and tasks started by _handle_login are not touched
close_connection ==
    /\ ctor = "done"
    /\ pc["caller"] = "idle"
    /\ session = "open"
    /\ session' = "closed"
    /\ UNCHANGED <<config, ctor, access_token, refresh_token, requests_params,
                   pc, req, called, result, nsent, log>>

\* one caller using a client that runs no maintainer
Next ==
    \/ HandleLogin
    \/ \E response \in Responses : HandleLoginRespond(response)
    \/ \E ep \in Endpoints : \E a \in CallArgs(ep) : CallBegin(ep, a)
    \/ \E response \in Responses : CallRespond(response)

Spec == Init /\ [][Next]_vars

-----------------------------------------------------------------------------
(* Properties of one caller's calls, checked under Spec *)

InFlight(p) == pc[p] = "inflight"
InFlightSigned(p) == InFlight(p) /\ req[p].signed
Is2xx(status) == status \div 100 = 2

\* C1: every request built with signed=True carries Authorization equal to
\* "Bearer " followed by access_token as it was read when the options were
\* built, whatever Authorization the default options or the caller's
\* per-call headers held.
C1_SignedCarriesBearer ==
    \A p \in Procs :
        InFlightSigned(p) =>
            /\ "headers" \in DOMAIN req[p].kwargs
            /\ "Authorization" \in DOMAIN req[p].kwargs.headers
            /\ req[p].kwargs.headers.Authorization = "Bearer " \o Str(req[p].token)

\* a signed request in flight whose caller passed an Authorization header of
\* its own, on a client whose default options hold one too
C1_Witness ==
    /\ InFlightSigned("caller")
    /\ "headers" \in DOMAIN req["caller"].given
    /\ req["caller"].given.headers.Authorization = "Basic caller"
    /\ "headers" \in DOMAIN requests_params
    /\ req["caller"].token = "A1"
    /\ req["caller"].kwargs.headers.Authorization = "Bearer A1"

TooLongOrMixed(orders) ==
    \/ Len(orders) > 10
    \/ \E i, j \in 1..Len(orders) : orders[i].symbol # orders[j].symbol

\* C3: create_order_bulk raises a validation error, issues no request and
\* leaves the stored tokens unchanged whenever the order list has more than
\* 10 entries or its entries do not all share one symbol.
C3_BulkRejectedLocally ==
    [][(/\ ~InFlight("caller")
        /\ called'.endpoint = "create_order_bulk"
        /\ TooLongOrMixed(called'.args.orders)
        /\ CallBegin("create_order_bulk", called'.args)) =>
            /\ result'.kind = "raise"
            /\ result'.exc = "ValueError"
            /\ nsent' = 0
            /\ ~InFlight("caller")'
            /\ req' = req
            /\ access_token' = access_token
            /\ refresh_token' = refresh_token]_vars

\* a create_order_bulk call that was refused without a request
C3_Witness ==
    /\ called.endpoint = "create_order_bulk"
    /\ Len(called.args.orders) = 2
    /\ called.args.orders[1].symbol # called.args.orders[2].symbol
    /\ result.kind = "raise"
    /\ result.exc = "ValueError"
    /\ nsent = 0
    /\ access_token = "A1"

\* C4 as stated: cancel_order(id) returns exactly {status: "success", id: id}
\* whenever the DELETE is answered 2xx, whatever the body.
C4_CancelReturnsOn2xx ==
    [][\A response \in Responses :
          (/\ req["caller"].endpoint = "cancel_order"
           /\ Is2xx(response.status)
           /\ CallRespond(response)) =>
              result' = Return([status |-> "success", id |-> req["caller"].order_id])]_vars

\* C5 as stated: no endpoint method returns a normal result when the
\* response is non-2xx; the ApiError reaches the caller.
C5_Non2xxAlwaysRaises ==
    [][\A response \in Responses :
          (~Is2xx(response.status) /\ CallRespond(response)) =>
              /\ result'.kind = "raise"
              /\ result'.exc = "APIException"]_vars

\* C6: a GET or POST endpoint call answered with a status that does not
\* start with 2 raises APIException carrying that status and the raw
\* response text; nothing is returned, the request was issued once and the
\* stored tokens are unchanged.
C6_GetPostNon2xxRaises ==
    [][\A response \in Responses :
          (/\ req["caller"].method \in {"get", "post"}
           /\ ~Is2xx(response.status)
           /\ CallRespond(response)) =>
              /\ result'.kind = "raise"
              /\ result'.exc = "APIException"
              /\ result'.status = response.status
              /\ result'.text = response.body.text
              /\ result'.value = NoValue
              /\ nsent' = 1
              /\ access_token' = access_token
              /\ refresh_token' = refresh_token]_vars

\* get_currencies_info answered 500 with the body "not json"
C6_Witness ==
    /\ called.endpoint = "get_currencies_info"
    /\ result.kind = "raise"
    /\ result.exc = "APIException"
    /\ result.status = 500
    /\ result.text = "not json"
    /\ nsent = 1

\* C10: login sends exactly one unsigned POST to usr/authenticate/ with body
\* {api_key, secret_key}; answered 2xx with payload {refresh, access}, it
\* leaves refresh_token = payload.refresh and access_token = payload.access
\* and returns the payload unchanged.
C10_LoginStoresTokens ==
    [][/\ \A a \in CallArgs("login") :
            CallBegin("login", a) =>
                /\ InFlight("caller")'
                /\ nsent' = 1
                /\ req'["caller"].method = "post"
                /\ req'["caller"].uri = <<"", "api", "v1", "usr", "authenticate", "">>
                /\ ~req'["caller"].signed
                /\ req'["caller"].kwargs.json =
                        [api_key |-> api_key, secret_key |-> api_secret]
       /\ \A response \in Responses :
            (/\ req["caller"].endpoint = "login"
             /\ Is2xx(response.status)
             /\ response.body.valid
             /\ DOMAIN response.body.json = {"refresh", "access"}
             /\ CallRespond(response)) =>
                /\ refresh_token' = response.body.json.refresh
                /\ access_token' = response.body.json.access
                /\ result' = Return(response.body.json)
                /\ nsent' = 1]_vars

\* a login call that returned the payload and replaced the tokens the client
\* was constructed with
C10_Witness ==
    /\ called.endpoint = "login"
    /\ ~(Truthy(api_key) /\ Truthy(api_secret))
    /\ result = Return([refresh |-> "R1", access |-> "A1"])
    /\ refresh_token = "R1"
    /\ access_token = "A1"
    /\ nsent = 1

\* C11: refresh_access_token(token) sends exactly one unsigned POST to
\* usr/refresh_token/ whose body is {refresh: token} when a (non-empty) token
\* is given and {refresh: stored refresh_token} otherwise; answered 2xx with
\* a payload holding `access`, it leaves access_token = payload.access and
\* refresh_token exactly as it was, and returns the payload.
C11_RefreshStoresAccessOnly ==
    [][/\ \A a \in CallArgs("refresh_access_token") :
            CallBegin("refresh_access_token", a) =>
                /\ InFlight("caller")'
                /\ nsent' = 1
                /\ req'["caller"].method = "post"
                /\ req'["caller"].uri = <<"", "api", "v1", "usr", "refresh_token", "">>
                /\ ~req'["caller"].signed
                /\ req'["caller"].kwargs.json =
                        [refresh |-> IF a.refresh_token \notin {None, ""}
                                     THEN a.refresh_token
                                     ELSE refresh_token]
                /\ access_token' = access_token
                /\ refresh_token' = refresh_token
       /\ \A response \in Responses :
            (/\ req["caller"].endpoint = "refresh_access_token"
             /\ Is2xx(response.status)
             /\ response.body.valid
             /\ "access" \in DOMAIN response.body.json
             /\ CallRespond(response)) =>
                /\ access_token' = response.body.json.access
                /\ refresh_token' = refresh_token
                /\ result' = Return(response.body.json)
                /\ nsent' = 1]_vars

\* a refresh with a token of the caller's own that was answered with a
\* payload holding a refresh token too: the stored refresh token is still
\* the one the client was constructed with
C11_Witness ==
    /\ called.endpoint = "refresh_access_token"
    /\ called.args.refresh_token = "R9"
    /\ result = Return([refresh |-> "R1", access |-> "A1"])
    /\ access_token = "A1"
    /\ refresh_token = "R0"
    /\ nsent = 1

\* C12: the signed call that directly follows a login that returned (the
\* constructor's or the caller's own) is sent with Authorization "Bearer "
\* followed by the access token that login returned, never with a missing
\* token.
C12_SignedAfterLoginUsesItsToken ==
    [][(/\ called.endpoint = "login"
        /\ result.kind = "return"
        /\ ~InFlight("caller")
        /\ InFlightSigned("caller")') =>
            /\ Truthy(result.value.access)
            /\ req'["caller"].token = result.value.access
            /\ req'["caller"].kwargs.headers.Authorization =
                    "Bearer " \o result.value.access]_vars

\* a signed order sent by a client that had neither credentials nor tokens
\* when it was constructed and has logged in since
C12_Witness ==
    /\ InFlightSigned("caller")
    /\ req["caller"].endpoint = "create_order"
    /\ ~(Truthy(api_key) /\ Truthy(api_secret))
    /\ refresh_token = "R1"
    /\ req["caller"].token = "A1"
    /\ req["caller"].kwargs.headers.Authorization = "Bearer A1"

\* C13: a 2xx response to a GET request whose body is not valid JSON raises
\* the decode error (RequestException) in both clients; no value is returned
\* and the stored tokens are unchanged.  The non-blocking client catches
\* ValueError only: an empty body makes aiohttp's json() return None, and a
\* body that is not declared application/json makes it raise
\* ContentTypeError.
C13_InvalidJsonRaisesDecodeError ==
    [][\A response \in Responses :
          (/\ req["caller"].method = "get"
           /\ Is2xx(response.status)
           /\ ~response.body.valid
           /\ CallRespond(response)) =>
              /\ result'.kind = "raise"
              /\ result'.exc = "RequestException"
              /\ result'.value = NoValue
              /\ access_token' = access_token
              /\ refresh_token' = refresh_token]_vars

\* C14: when an option key is present both in the client's default request
\* options and in the options supplied for one call, the finalized request
\* uses the per-call value.  (Stated for unsigned requests, whose headers the
\* authenticator leaves alone.)  The builder applies the defaults on top of
\* the caller's options.
C14_CallerWinsOnConflict ==
    (InFlight("caller") /\ ~req["caller"].signed) =>
        \A key \in (DOMAIN req["caller"].given) \cap (DOMAIN requests_params) :
            req["caller"].kwargs[key] = req["caller"].given[key]

\* C15: the finalized request has timeout REQUEST_TIMEOUT (10 seconds) when
\* no timeout is supplied, and the supplied timeout whenever one is given, by
\* the caller's per-call options or by the default options.  The builder
\* sets timeout to REQUEST_TIMEOUT over whatever the caller passed.
C15_SuppliedTimeoutUsed ==
    InFlight("caller") =>
        req["caller"].kwargs.timeout =
            Get(req["caller"].given, "timeout", Get(requests_params, "timeout", 10))

\* the entries of a data dict other than requests_params, as full
\* key=value pairs
FullPairs(items) ==
    LET kept == SelectSeq(items, LAMBDA item : item[1] # RequestsParamsKey)
    IN  [i \in 1..Len(kept) |-> [l |-> kept[i][1], r |-> kept[i][2]]]

\* C16: for a GET request whose data is a non-empty key-value mapping, the
\* finalized options hold a query string of one key=value pair per entry,
\* made of the entry's full key and full value, and no data entry.  The
\* builder iterates the dict, which yields its keys, and indexes each key:
\* the pair is the key's first and second character.
C16_MappingBecomesQueryString ==
    (/\ InFlight("caller")
     /\ req["caller"].method = "get"
     /\ "data" \in DOMAIN req["caller"].given
     /\ req["caller"].given.data.type = "dict") =>
        /\ "data" \notin DOMAIN req["caller"].kwargs
        /\ req["caller"].kwargs.params = FullPairs(req["caller"].given.data.items)

UnsignedEndpoints ==
    {"login", "refresh_access_token", "get_currencies_info", "get_markets_info",
     "get_tickers_info", "get_orderbook", "get_recent_trades"}
SignedEndpoints ==
    {"get_wallets", "get_user_orders", "create_order", "cancel_order",
     "create_order_bulk", "cancel_order_bulk", "get_user_trades"}

\* C17: login, refresh_access_token, get_currencies_info, get_markets_info,
\* get_tickers_info, get_orderbook and get_recent_trades build their request
\* unsigned (its headers are the ones the caller's and the default options
\* give, the authenticator adds nothing), while get_wallets, get_user_orders,
\* create_order, cancel_order, create_order_bulk, cancel_order_bulk and
\* get_user_trades build it signed (it carries the bearer header of the
\* current access token).
C17_SignedEndpoints ==
    [][(~InFlight("caller") /\ InFlight("caller")') =>
          LET r == req'["caller"]
          IN  /\ r.endpoint \in UnsignedEndpoints \cup SignedEndpoints
              /\ r.endpoint \in UnsignedEndpoints =>
                    /\ ~r.signed
                    /\ Get(r.kwargs, "headers", EmptyDict) =
                         Get(Update(r.given, requests_params), "headers", EmptyDict)
              /\ r.endpoint \in SignedEndpoints =>
                    /\ r.signed
                    /\ r.kwargs.headers.Authorization = "Bearer " \o Str(access_token)]_vars

\* a trades request sent signed by a client that has no default options:
\* its only header is the bearer header of the token the exchange issued
C17_Witness ==
    /\ InFlight("caller")
    /\ req["caller"].endpoint = "get_user_trades"
    /\ req["caller"].signed
    /\ req["caller"].kwargs.headers.Authorization = "Bearer A1"
    /\ requests_params = EmptyDict

\* C18: for a DELETE answered with a non-2xx status the two normalizers
\* differ: the blocking one returns {status: "success", id: last-but-one
\* path segment of the request URL} without raising, the non-blocking one
\* raises APIException carrying the status code and the raw response text;
\* and that is the outcome the caller of the blocking, respectively the
\* non-blocking, client gets.
C18_DeleteNon2xxDiffers ==
    [][\A response \in Responses :
          (/\ req["caller"].method = "delete"
           /\ ~Is2xx(response.status)
           /\ CallRespond(response)) =>
              LET uri == req["caller"].uri
                  synthesized == [kind |-> "return", exc |-> "", status |-> 0,
                                  text |-> "",
                                  value |-> [status |-> "success",
                                             id |-> uri[Len(uri) - 1]]]
                  raised == [kind |-> "raise", exc |-> "APIException",
                             status |-> response.status,
                             text |-> response.body.text, value |-> NoValue]
              IN  /\ SyncHandleResponse("delete", uri, response) = synthesized
                  /\ AsyncHandleResponse("delete", uri, response) = raised
                  /\ kind = "sync" => result' = synthesized
                  /\ kind = "async" => result' = raised]_vars

\* a bulk cancellation of the blocking client that was answered 500 and
\* returned the synthesized payload (a 2xx answer gives the decoded body)
C18_Witness ==
    /\ kind = "sync"
    /\ called.endpoint = "cancel_order_bulk"
    /\ ~InFlight("caller")
    /\ result = Return([status |-> "success", id |-> "bulk"])

\* C19: for every non-DELETE request and every response the blocking and
\* the non-blocking normalizer produce the same outcome.  On a 2xx answer
\* with an empty body the blocking one raises RequestException and the
\* non-blocking one returns None; on a 2xx answer not declared as JSON the
\* non-blocking one raises ContentTypeError.
C19_NormalizersAgree ==
    (InFlight("caller") /\ req["caller"].method # "delete") =>
        \A response \in Responses :
            SyncHandleResponse(req["caller"].method, req["caller"].uri, response)
                = AsyncHandleResponse(req["caller"].method, req["caller"].uri, response)

\* C20: access_token and refresh_token change only as the effect of a
\* successful login (both tokens) or a successful refresh_access_token
\* (access token only) on the constructed client; every other step leaves
\* both unchanged, and api_key, api_secret and the background flags keep
\* their values.  login assigns
\* refresh_token before it reads the payload's `access`: answered with a
\* payload that lacks `access` it raises KeyError with refresh_token
\* already replaced.
C20_TokensChangeOnlyBySuccess ==
    [][/\ config' = config
       /\ (/\ ctor = "done"
           /\ (access_token' # access_token \/ refresh_token' # refresh_token)) =>
            /\ req["caller"].endpoint \in {"login", "refresh_access_token"}
            /\ result'.kind = "return"
            /\ req["caller"].endpoint = "refresh_access_token" =>
                    refresh_token' = refresh_token]_vars

\* C22: create_order_bulk called with n orders of one symbol, 1 <= n <= 10,
\* passes the local validation and issues exactly one signed POST to
\* odr/orders/bulk/; a list of exactly 10 is accepted, and a list of one
\* symbol is refused only when it has 11 entries or more.
C22_BulkUpToTenAccepted ==
    [][(/\ ~InFlight("caller")
        /\ called'.endpoint = "create_order_bulk"
        /\ ~(\E i, j \in 1..Len(called'.args.orders) :
                called'.args.orders[i].symbol # called'.args.orders[j].symbol)
        /\ CallBegin("create_order_bulk", called'.args)) =>
            LET n == Len(called'.args.orders)
            IN  /\ n \in 1..10 =>
                    /\ InFlightSigned("caller")'
                    /\ nsent' = 1
                    /\ req'["caller"].method = "post"
                    /\ req'["caller"].uri =
                            <<"", "api", "v1", "odr", "orders", "bulk", "">>
                /\ (n >= 1 /\ result'.kind = "raise") <=> n >= 11]_vars

\* a bulk order of exactly ten orders of one market, sent
C22_Witness ==
    /\ InFlightSigned("caller")
    /\ req["caller"].endpoint = "create_order_bulk"
    /\ Len(called.args.orders) = 10
    /\ \A i \in 1..10 : called.args.orders[i].symbol = "BTC_IRT"
    /\ nsent = 1

\* the Authorization header a signed request carries, for some token a
\* client can hold
IsBearer(v) ==
    \E t \in {None, "T0"} \cup ServerAccess \cup ServerRefresh : v = Bearer(t)

\* C23: building a request never modifies the client's default request
\* options, and the finalized options of an unsigned request never hold the
\* bearer header of an earlier signed request: after each call the default
\* options equal the ones given at construction.  _get_request_kwargs
\* updates the headers dict it took from the default options in place, so
\* the first signed call on a client whose default options hold a headers
\* mapping writes "Bearer <token>" into the defaults, and every later
\* unsigned request carries it.
C23_DefaultsNeverModified ==
    [][/\ requests_params' = requests_params
       /\ (InFlight("caller")' /\ ~req'["caller"].signed) =>
            ~IsBearer(Get(Get(req'["caller"].kwargs, "headers", EmptyDict),
                          "Authorization", None))]_vars

\* C24: login is all-or-nothing on the token pair: whenever a login on the
\* constructed client raises (non-2xx response, undecodable body, a 2xx
\* payload without `refresh` or without `access`), access_token and
\* refresh_token keep the values they had before the call.  Answered with a
\* 2xx payload that has `refresh` but no `access`, login has stored the new
\* refresh token when the KeyError is raised.
C24_LoginAllOrNothing ==
    [][(/\ ctor = "done"
        /\ InFlight("caller")
        /\ req["caller"].endpoint = "login"
        /\ result'.kind = "raise") =>
            /\ access_token' = access_token
            /\ refresh_token' = refresh_token]_vars

\* C25: when refresh_access_token raises (before its request is sent, on a
\* non-2xx response, on an undecodable body, or on a payload without
\* `access`), access_token and refresh_token keep their prior values; and
\* the signed call made next is sent with that same access token.
C25_FailedRefreshKeepsTokens ==
    [][/\ (called'.endpoint = "refresh_access_token" /\ result'.kind = "raise") =>
            /\ access_token' = access_token
            /\ refresh_token' = refresh_token
       /\ (/\ called.endpoint = "refresh_access_token"
           /\ result.kind = "raise"
           /\ InFlightSigned("caller")') =>
            /\ req'["caller"].token = access_token
            /\ req'["caller"].kwargs.headers.Authorization = Bearer(access_token)]_vars

\* a refresh answered 2xx without `access` has raised on a client that
\* holds both tokens
C25_Witness ==
    /\ called.endpoint = "refresh_access_token"
    /\ result.kind = "raise"
    /\ result.exc = "KeyError"
    /\ ~InFlight("caller")
    /\ access_token = "T0"
    /\ refresh_token = "R0"

\* C30: the JSON body create_order_bulk sends is built only from the
\* caller's `orders` argument: its one key is `orders`, holding the caller's
\* order list, and no key comes from the method's working variables.  The
\* body is built from locals(), which by then also holds max_orders and
\* market.
C30_BulkBodyOnlyOrders ==
    (InFlight("caller") /\ req["caller"].endpoint = "create_order_bulk") =>
        /\ DOMAIN req["caller"].kwargs.json = {"orders"}
        /\ req["caller"].kwargs.json.orders = StrOf(called.args.orders)

-----------------------------------------------------------------------------
(* The background maintainers on their own: construction, then the loops *)

InitMaint == Constructed({EmptyDict}, BOOLEAN)

\* what the exchange answers a maintainer's (and the constructor's) request
MaintResponses ==
    [status : {200, 500}, body : {TokenBody("R1", "A1"), AccessBody("A1"), NotJsonBody}]

NextMaint ==
    \/ HandleLogin
    \/ \E response \in MaintResponses : HandleLoginRespond(response)
    \/ \E p \in Maintainers : MaintainerAttempt(p)
    \/ \E p \in Maintainers : \E response \in MaintResponses : MaintainerRespond(p, response)
    \/ \E p \in Maintainers : MaintainerWake(p)

SpecMaint == InitMaint /\ [][NextMaint]_vars

\* A started thread or task is scheduled again and again, every transport
\* call ends (the request timeout bounds it) and every sleep ends.
\* (for clients given both credentials or none, and no tokens)
InitFair ==
    /\ InitMaint
    /\ Truthy(api_key) <=> Truthy(api_secret)
    /\ access_token = None

FairSpecMaint ==
    /\ InitFair
    /\ [][NextMaint]_vars
    /\ \A p \in Maintainers :
        /\ WF_vars(MaintainerAttempt(p))
        /\ WF_vars(\E response \in MaintResponses : MaintainerRespond(p, response))
        /\ WF_vars(MaintainerWake(p))

\* C7: in every maintainer loop a sleep of the configured interval follows an
\* attempt exactly when that attempt succeeded, and a failed attempt is
\* followed by the next attempt with no sleep in between; after the outcomes
\* fail, fail, success the log is three attempts and then one sleep.
C7_SleepExactlyAfterSuccess ==
    \A p \in Maintainers :
        /\ \A i \in 1..Len(log[p]) :
            /\ log[p][i].ev = "sleep" =>
                /\ i > 1
                /\ log[p][i - 1] = [ev |-> "attempt", ok |-> TRUE, secs |-> 0]
                /\ log[p][i].secs = IF p = "relogin" THEN 518400 ELSE 780
            /\ (log[p][i].ev = "attempt" /\ i < Len(log[p])) =>
                (log[p][i].ok <=> log[p][i + 1].ev = "sleep")
        /\ (pc[p] = "sleeping" /\ Len(log[p]) < MaxLog) =>
                log[p][Len(log[p])].ev = "sleep"
        /\ (pc[p] = "ready" /\ Len(log[p]) \in 1..(MaxLog - 1)) =>
                log[p][Len(log[p])] # [ev |-> "attempt", ok |-> TRUE, secs |-> 0]

\* the refresh maintainer of a blocking and of a non-blocking client after
\* fail, fail, success: three calls, then the one sleep
C7_Witness ==
    /\ pc["refresh"] = "sleeping"
    /\ log["refresh"] = << [ev |-> "attempt", ok |-> FALSE, secs |-> 0],
                           [ev |-> "attempt", ok |-> FALSE, secs |-> 0],
                           [ev |-> "attempt", ok |-> TRUE, secs |-> 0],
                           [ev |-> "sleep", ok |-> TRUE, secs |-> 780] >>

\* C8: once started, a maintainer loop never exits and lets no exception
\* escape: it is never off again; a failed attempt leads straight back to
\* the head of the loop without a sleep; and a started loop has an attempt
\* in flight again and again, each of which ends, so under persistent
\* failure attempt follows attempt without bound.
C8_LoopNeverExits ==
    /\ [][\A p \in Maintainers :
            /\ pc[p] # "off" => pc'[p] # "off"
            /\ InFlight(p) =>
                \A response \in MaintResponses :
                    (~Is2xx(response.status) /\ MaintainerRespond(p, response)) =>
                        pc'[p] = "ready"]_vars
    /\ \A p \in Maintainers :
        /\ []<>(pc[p] = "off" \/ InFlight(p))
        /\ []<>(pc[p] = "off" \/ pc[p] \in {"ready", "sleeping"})

\* both maintainers of one client past their third attempt, one of them
\* having failed throughout
C8_Witness ==
    /\ InFlight("relogin")
    /\ InFlight("refresh")
    /\ log["refresh"] = << [ev |-> "attempt", ok |-> FALSE, secs |-> 0],
                           [ev |-> "attempt", ok |-> FALSE, secs |-> 0],
                           [ev |-> "attempt", ok |-> FALSE, secs |-> 0] >>
    /\ Len(log["relogin"]) >= 3

HasCredentials == Truthy(api_key) /\ Truthy(api_secret)
Flag(p) == IF p = "relogin" THEN background_relogin ELSE background_refresh_token

\* C9: a maintainer is started at construction exactly when its flag is set
\* and the credentials (API key and secret) are present.  _handle_login tests
\* the flags outside its credentials branch, so a client built with
\* background_relogin and no credentials runs a relogin loop.
C9_StartedIffFlagAndCredentials ==
    ctor = "done" =>
        \A p \in Maintainers : pc[p] # "off" <=> (Flag(p) /\ HasCredentials)

\* C29: in the blocking client constructed with credentials, the
\* constructor's login has completed successfully before any background
\* maintainer is started; if that login raises, construction fails with
\* that error and no maintainer is ever started; no maintainer attempt
\* precedes or overlaps the constructor's login.
C29_LoginBeforeMaintainers ==
    /\ []((kind = "sync" /\ Truthy(api_key) /\ Truthy(api_secret) /\ ctor # "done") =>
            \A p \in Maintainers : pc[p] = "off" /\ log[p] = <<>>)
    /\ [][(kind = "sync" /\ Truthy(api_key) /\ Truthy(api_secret)) =>
            /\ (ctor = "new") => (ctor' = "login" /\ req'["caller"].endpoint = "login")
            /\ (ctor = "login" /\ ctor' = "done") =>
                    /\ result'.kind = "return"
                    /\ \A p \in Maintainers : pc'[p] = Started(Flag(p))
            /\ (ctor = "login" /\ ctor' # "done") =>
                    /\ ctor' = "failed"
                    /\ result'.kind = "raise"
            /\ \A p \in Maintainers : MaintainerAttempt(p) => ctor = "done"]_vars

\* construction of a blocking client with credentials and both flags has
\* failed on its login
C29_Witness ==
    /\ kind = "sync"
    /\ Truthy(api_key) /\ Truthy(api_secret)
    /\ background_relogin /\ background_refresh_token
    /\ ctor = "failed"
    /\ result.kind = "raise"
    /\ \A p \in Maintainers : pc[p] = "off"

-----------------------------------------------------------------------------
(* The maintainers of a client whose connection is closed *)

NextClose ==
    \/ HandleLogin
    \/ \E response \in MaintResponses : HandleLoginRespond(response)
    \/ \E p \in Maintainers : MaintainerAttempt(p)
    \/ \E p \in Maintainers : \E response \in MaintResponses : MaintainerRespond(p, response)
    \/ \E p \in Maintainers : MaintainerWake(p)
    \/ close_connection

SpecClose == InitMaint /\ [][NextClose]_vars

\* C27: after close_connection has returned the client issues no further
\* requests on its session: its background maintainers make no more login
\* or refresh attempts.  close_connection closes the session and nothing
\* else; the maintainer loops go on, and on the blocking client their
\* requests are sent.
C27_NoAttemptAfterClose ==
    [][session = "closed" =>
            \A p \in Maintainers :
                /\ ~MaintainerAttempt(p)
                /\ InFlight(p)' => InFlight(p)]_vars

\* C28: in the non-blocking client every iteration of a maintainer loop
\* passes a suspension point, the awaited network call or the interval
\* sleep, also when its attempt raises before any network I/O.  On a closed
\* session the attempt raises at once and `continue` starts the next
\* iteration without an await that suspends.
C28_IterationSuspends ==
    [][\A p \in Maintainers :
            (kind = "async" /\ MaintainerAttempt(p)) =>
                pc'[p] \in {"inflight", "sleeping"}]_vars

-----------------------------------------------------------------------------
(* A caller and the background maintainers on one client *)

\* The exchange of this part issues tokens that tell what they were issued
\* for: a login gives the pair R1/A1, a refresh gives the access token of
\* the refresh token presented; wrong credentials and an absent refresh
\* token are refused.
RefreshedAccess(r) == "A/" \o r

Refused == [status |-> 500, body |-> DetailBody]

ConcResponses(r) ==
    CASE r.endpoint = "login" ->
            IF r.kwargs.json = [api_key |-> "key", secret_key |-> "secret"]
            THEN {[status |-> 200, body |-> TokenBody("R1", "A1")], Refused}
            ELSE {Refused}
      [] r.endpoint = "refresh_access_token" ->
            IF Truthy(r.kwargs.json.refresh)
            THEN {[status |-> 200,
                   body |-> AccessBody(RefreshedAccess(r.kwargs.json.refresh))],
                  Refused}
            ELSE {Refused}
      [] OTHER ->
            {[status |-> 200, body |-> DetailBody], Refused}

\* what the caller does besides: a signed call, a login, a refresh
ConcEndpoints == {"get_wallets", "login", "refresh_access_token"}

InitConc ==
    /\ Constructed({EmptyDict}, BOOLEAN)
    /\ Truthy(api_key) <=> Truthy(api_secret)

NextConc ==
    \/ HandleLogin
    \/ \E response \in ConcResponses(req["caller"]) : HandleLoginRespond(response)
    \/ \E ep \in ConcEndpoints : CallBegin(ep, NoArgs)
    \/ \E response \in ConcResponses(req["caller"]) : CallRespond(response)
    \/ \E p \in Maintainers : MaintainerAttempt(p)
    \/ \E p \in Maintainers :
            \E response \in ConcResponses(req[p]) : MaintainerRespond(p, response)
    \/ \E p \in Maintainers : MaintainerWake(p)

SpecConc == InitConc /\ [][NextConc]_vars

\* C21: a signed request and a background refresh or relogin are not
\* ordered.  While a signed request of the caller is in flight a maintainer
\* that is ready can start its attempt and one that has its answer can take
\* it; taking it writes the token it brings and leaves the caller's request as
\* it was built; and the caller's response is handled as usual although the
\* stored token is no longer the one the request was built with.
C21_RequestAndRefreshUnordered ==
    /\ [](\A p \in Maintainers :
            InFlightSigned("caller") =>
                /\ pc[p] = "ready" => ENABLED MaintainerAttempt(p)
                /\ InFlight(p) =>
                        \A response \in ConcResponses(req[p]) :
                            ENABLED MaintainerRespond(p, response))
    /\ [][/\ \A p \in Maintainers : \A response \in ConcResponses(req[p]) :
              (/\ InFlightSigned("caller")
               /\ Is2xx(response.status)
               /\ MaintainerRespond(p, response)) =>
                    /\ access_token' = response.body.json.access
                    /\ req'["caller"] = req["caller"]
                    /\ InFlightSigned("caller")'
          /\ \A response \in ConcResponses(req["caller"]) :
              (/\ InFlightSigned("caller")
               /\ req["caller"].token # access_token
               /\ CallRespond(response)) =>
                    result' = _handle_response(kind, req["caller"].method,
                                               req["caller"].uri, response)]_vars

\* a signed request built with the token the client was constructed with,
\* still in flight after the refresh maintainer has stored another token
C21_Witness ==
    /\ InFlightSigned("caller")
    /\ req["caller"].token = "T0"
    /\ req["caller"].kwargs.headers.Authorization = "Bearer T0"
    /\ access_token = "A/R0"
    /\ Len(log["refresh"]) > 0

-----------------------------------------------------------------------------
(* The token pair under logins that each issue a new pair *)

LoginPairs == {[refresh |-> "R1", access |-> "A1"], [refresh |-> "R2", access |-> "A2"]}

\* the pair a login issues: not the one the client held when it built the
\* request
FreshPair(r) ==
    IF r.token = "A1"
    THEN [refresh |-> "R2", access |-> "A2"]
    ELSE [refresh |-> "R1", access |-> "A1"]

PairResponses(r) ==
    IF r.endpoint = "login" /\ r.kwargs.json = [api_key |-> "key", secret_key |-> "secret"]
    THEN {[status |-> 200,
           body |-> TokenBody(FreshPair(r).refresh, FreshPair(r).access)],
          Refused}
    ELSE ConcResponses(r)

\* the caller's own token calls
PairEndpoints == {"login", "refresh_access_token"}

\* blocking clients with credentials and both maintainers
InitPair ==
    /\ Constructed({EmptyDict}, {TRUE})
    /\ kind = "sync"
    /\ Truthy(api_key) /\ Truthy(api_secret)

NextPair ==
    \/ HandleLogin
    \/ \E response \in PairResponses(req["caller"]) : HandleLoginRespond(response)
    \/ \E ep \in PairEndpoints : CallBegin(ep, NoArgs)
    \/ \E response \in PairResponses(req["caller"]) : CallRespond(response)
    \/ \E p \in Maintainers : MaintainerAttempt(p)
    \/ \E p \in Maintainers :
            \E response \in PairResponses(req[p]) : MaintainerRespond(p, response)
    \/ \E p \in Maintainers : MaintainerWake(p)

SpecPair == InitPair /\ [][NextPair]_vars

\* a login or a refresh_access_token call is in progress
TokenCallInProgress ==
    \/ ctor = "login"
    \/ \E p \in Procs :
          InFlight(p) /\ req[p].endpoint \in {"login", "refresh_access_token"}

\* the server issued `access` for `refresh`: together in a login's payload,
\* as the answer to a refresh that presented `refresh`, or as the pair the
\* client was constructed with
IssuedFor(access, refresh) ==
    \/ [refresh |-> refresh, access |-> access] \in LoginPairs
    \/ Truthy(refresh) /\ access = RefreshedAccess(refresh)
    \/ access = "T0" /\ refresh = "R0"
    \/ access = None /\ refresh = None

\* C26: in every reachable state in which no login or refresh call is in
\* progress, the stored access token was issued for the stored refresh
\* token, for every interleaving of the relogin maintainer, the refresh
\* maintainer and caller-invoked login / refresh_access_token.  A refresh
\* that presented the old refresh token and is answered after a login has
\* stored a new pair overwrites access_token alone.
C26_TokenPairConsistent ==
    ~TokenCallInProgress => IssuedFor(access_token, refresh_token)

====
